---- MODULE Spec2Model ----
(***************************************************************************)
(* Model of inventory.py: the Product hierarchy (Electronics, Grocery,     *)
(* Clothing), the Inventory store (an insertion-ordered dict keyed by      *)
(* product id) and its JSON persistence.                                   *)
(*                                                                         *)
(* A Python dict is a sequence of entries [key, val] in insertion order.   *)
(* A Python str that the code inspects character by character (names,      *)
(* date strings) is a sequence of one-character strings.                   *)
(***************************************************************************)
EXTENDS Integers, Sequences, FiniteSets, TLC

VARIABLES
    products,   \* Inventory._products: sequence of [key, val]
    file,       \* the file on disk: [kind, data]
    today,      \* datetime.now().date()
    result,     \* the last thing that happened and how it ended: [op, err]
    returned    \* what the last call returned: [arg, list, value]

vars == <<products, file, today, result, returned>>

\* ------------------------------------------------------------------ bounds
MaxStock == 2       \* stock is capped here; quantities range over 1..MaxStock

\* ------------------------------------------------------------ input values
Ids == {"P1", "P2"}
Qtys == 1..MaxStock
InitStocks == {0, 1}

NameLaptop == <<"L", "a", "p", "t", "o", "p">>
NameBag == <<"L", "a", "p", "t", "o", "p", " ", "B", "a", "g">>
NameMilk == <<"M", "i", "l", "k">>

\* date strings as typed by a user or found in a file
StrJan31 == <<"2", "0", "2", "4", "-", "1", "-", "3", "1">>
StrFeb02 == <<"2", "0", "2", "4", "-", "0", "2", "-", "0", "2">>
StrFeb30 == <<"2", "0", "2", "4", "-", "0", "2", "-", "3", "0">>
StrMonth13 == <<"2", "0", "2", "4", "-", "1", "3", "-", "0", "1">>
StrSlashes == <<"3", "1", "/", "0", "1", "/", "2", "0", "2", "4">>

\* --------------------------------------------------------------- dates
Digits == <<"0", "1", "2", "3", "4", "5", "6", "7", "8", "9">>

IsDigit(c) == \E i \in 1..10 : Digits[i] = c

DigitVal(c) == (CHOOSE i \in 1..10 : Digits[i] = c) - 1

Date(y, m, d) == [year |-> y, month |-> m, day |-> d]

IsLeap(y) == (y % 4 = 0) /\ ((y % 100 # 0) \/ (y % 400 = 0))

DaysInMonth(y, m) ==
    IF m = 2 THEN (IF IsLeap(y) THEN 29 ELSE 28)
    ELSE IF m \in {4, 6, 9, 11} THEN 30 ELSE 31

\* date.__gt__: dates order by (year, month, day)
DateGT(a, b) ==
    \/ a.year > b.year
    \/ a.year = b.year /\ a.month > b.month
    \/ a.year = b.year /\ a.month = b.month /\ a.day > b.day

\* value of a token of one or two digit characters
TokVal(t) ==
    IF Len(t) = 1 THEN DigitVal(t[1]) ELSE 10 * DigitVal(t[1]) + DigitVal(t[2])

\* %m matches 1[0-2] | 0[1-9] | [1-9]
MonthTokOK(t) ==
    /\ Len(t) \in {1, 2}
    /\ \A i \in 1..Len(t) : IsDigit(t[i])
    /\ TokVal(t) \in 1..12

\* %d matches 3[01] | [12]\d | 0[1-9] | [1-9] | " "[1-9]
DayTokOK(t) ==
    \/ /\ Len(t) \in {1, 2}
       /\ \A i \in 1..Len(t) : IsDigit(t[i])
       /\ TokVal(t) \in 1..31
    \/ /\ Len(t) = 2
       /\ t[1] = " "
       /\ IsDigit(t[2])
       /\ DigitVal(t[2]) \in 1..9

DayTokVal(t) == IF Len(t) = 2 /\ t[1] = " " THEN DigitVal(t[2]) ELSE TokVal(t)

\* datetime.strptime(s, "%Y-%m-%d").date(): [ok, date]
strptime(s) ==
    LET bad == [ok |-> FALSE, date |-> Date(0, 0, 0)]
    IN  IF ~(Len(s) >= 8 /\ (\A i \in 1..4 : IsDigit(s[i])) /\ s[5] = "-")
        THEN bad
        ELSE
        LET mlen == IF s[7] = "-" THEN 1 ELSE 2
            mtok == SubSeq(s, 6, 5 + mlen)
            dtok == SubSeq(s, 7 + mlen, Len(s))
            y == 1000 * DigitVal(s[1]) + 100 * DigitVal(s[2])
                   + 10 * DigitVal(s[3]) + DigitVal(s[4])
        IN  IF /\ s[6 + mlen] = "-"
               /\ MonthTokOK(mtok)
               /\ DayTokOK(dtok)
               /\ y >= 1
               /\ DayTokVal(dtok) <= DaysInMonth(y, TokVal(mtok))
            THEN [ok |-> TRUE, date |-> Date(y, TokVal(mtok), DayTokVal(dtok))]
            ELSE bad

\* isoformat that writes the day before the month
isoformat_DayFirst(d) ==
    <<Digits[(d.year \div 1000) + 1], Digits[((d.year \div 100) % 10) + 1],
      Digits[((d.year \div 10) % 10) + 1], Digits[(d.year % 10) + 1], "-",
      Digits[(d.day \div 10) + 1], Digits[(d.day % 10) + 1], "-",
      Digits[(d.month \div 10) + 1], Digits[(d.month % 10) + 1]>>

Pad2(n) == <<Digits[(n \div 10) + 1], Digits[(n % 10) + 1]>>

\* date.isoformat(): "%04d-%02d-%02d"
isoformat(d) ==
    <<Digits[(d.year \div 1000) + 1], Digits[((d.year \div 100) % 10) + 1]>>
    \o Pad2(d.year % 100) \o <<"-">> \o Pad2(d.month) \o <<"-">> \o Pad2(d.day)

DayJan31 == Date(2024, 1, 31)
DayFeb01 == Date(2024, 2, 1)
DayFeb03 == Date(2024, 2, 3)
Days == {DayJan31, DayFeb01, DayFeb03}

\* ------------------------------------------------------------- products
None == [cls |-> "NoneType"]

Electronics(pid, name, price, qty, brand, warranty) ==
    [cls |-> "Electronics", product_id |-> pid, name |-> name, price |-> price,
     quantity_in_stock |-> qty, brand |-> brand, warranty_years |-> warranty]

\* Grocery.__init__ parses the date; call only where strptime succeeds
Grocery(pid, name, price, qty, expiry) ==
    [cls |-> "Grocery", product_id |-> pid, name |-> name, price |-> price,
     quantity_in_stock |-> qty, expiry_date |-> strptime(expiry).date]

Clothing(pid, name, price, qty, size, material) ==
    [cls |-> "Clothing", product_id |-> pid, name |-> name, price |-> price,
     quantity_in_stock |-> qty, size |-> size, material |-> material]

\* restock that sets the stock instead of adding to it
restock_Assign(p, amount) == [p EXCEPT !.quantity_in_stock = amount]

\* Product.restock
restock(p, amount) ==
    [p EXCEPT !.quantity_in_stock = p.quantity_in_stock + amount]

\* sell without the stock check
sell_NoCheck(p, quantity) ==
    [err |-> "none",
     p |-> [p EXCEPT !.quantity_in_stock = p.quantity_in_stock - quantity]]

\* sell that also rejects a sale of everything that is left
sell_OffByOne(p, quantity) ==
    IF quantity >= p.quantity_in_stock
    THEN [err |-> "InsufficientStockError", p |-> p]
    ELSE [err |-> "none",
          p |-> [p EXCEPT !.quantity_in_stock = p.quantity_in_stock - quantity]]

\* Product.sell: [err, p]
sell(p, quantity) ==
    IF quantity > p.quantity_in_stock
    THEN [err |-> "InsufficientStockError", p |-> p]
    ELSE [err |-> "none",
          p |-> [p EXCEPT !.quantity_in_stock = p.quantity_in_stock - quantity]]

\* Grocery.is_expired, with datetime.now().date() = now
is_expired(p, now) == DateGT(now, p.expiry_date)

\* ------------------------------------------------------------------ dict
Keys(d) == {d[i].key : i \in 1..Len(d)}

DictGet(d, k) ==
    IF k \in Keys(d)
    THEN d[CHOOSE i \in 1..Len(d) : d[i].key = k].val
    ELSE None

\* d[k] = v: an existing key keeps its position
DictSet(d, k, v) ==
    IF k \in Keys(d)
    THEN [i \in 1..Len(d) |-> IF d[i].key = k THEN [key |-> k, val |-> v] ELSE d[i]]
    ELSE Append(d, [key |-> k, val |-> v])

DictDelTest(e, k) == e.key # k

\* del d[k]
DictDel(d, k) == SelectSeq(d, LAMBDA e : DictDelTest(e, k))

\* truth value of a product that is falsy when out of stock
Truthy_InStock(p) == p # None /\ p.quantity_in_stock # 0

\* truth value of a looked-up product: None is falsy, a Product object is truthy
Truthy(p) == p # None

\* the products an add_product call is given: every id comes in two variants
ProductInputs ==
    UNION {
        { Electronics("P1", NameLaptop, 100, q, "Acme", 2),
          Grocery("P1", NameMilk, 3, q, StrJan31),
          Grocery("P2", NameMilk, 3, q, StrFeb02),
          Clothing("P2", NameBag, 25, q, "M", "Cotton") }
        : q \in InitStocks }

\* ------------------------------------------------------- serialization
\* Electronics.to_dict
Electronics_to_dict(p) ==
    [type |-> "Electronics", product_id |-> p.product_id, name |-> p.name,
     price |-> p.price, quantity |-> p.quantity_in_stock, brand |-> p.brand,
     warranty_years |-> p.warranty_years]

\* Grocery.to_dict
Grocery_to_dict(p) ==
    [type |-> "Grocery", product_id |-> p.product_id, name |-> p.name,
     price |-> p.price, quantity |-> p.quantity_in_stock,
     expiry_date |-> isoformat(p.expiry_date)]

\* Clothing.to_dict
Clothing_to_dict(p) ==
    [type |-> "Clothing", product_id |-> p.product_id, name |-> p.name,
     price |-> p.price, quantity |-> p.quantity_in_stock, size |-> p.size,
     material |-> p.material]

\* p.to_dict(), dispatched on the class of p
to_dict(p) ==
    CASE p.cls = "Electronics" -> Electronics_to_dict(p)
      [] p.cls = "Grocery" -> Grocery_to_dict(p)
      [] p.cls = "Clothing" -> Clothing_to_dict(p)

BaseFields == {"product_id", "name", "price", "quantity"}

\* data[k] for every k in fields raises KeyError when one is missing
HasFields(data, fields) == fields \subseteq DOMAIN data

\* Electronics.from_dict: [err, p]
Electronics_from_dict(data) ==
    IF ~HasFields(data, BaseFields \cup {"brand", "warranty_years"})
    THEN [err |-> "KeyError", p |-> None]
    ELSE [err |-> "none",
          p |-> Electronics(data.product_id, data.name, data.price, data.quantity,
                            data.brand, data.warranty_years)]

\* Grocery.from_dict: [err, p]; Grocery.__init__ raises ValueError on a bad date
Grocery_from_dict(data) ==
    IF ~HasFields(data, BaseFields \cup {"expiry_date"})
    THEN [err |-> "KeyError", p |-> None]
    ELSE IF ~strptime(data.expiry_date).ok
    THEN [err |-> "ValueError", p |-> None]
    ELSE [err |-> "none",
          p |-> Grocery(data.product_id, data.name, data.price, data.quantity,
                        data.expiry_date)]

\* Clothing.from_dict: [err, p]
Clothing_from_dict(data) ==
    IF ~HasFields(data, BaseFields \cup {"size", "material"})
    THEN [err |-> "KeyError", p |-> None]
    ELSE [err |-> "none",
          p |-> Clothing(data.product_id, data.name, data.price, data.quantity,
                         data.size, data.material)]

\* ------------------------------------------------------------ Inventory
\* each operation maps the store to [err, products]

\* add_product that overwrites what is stored under the id
add_product_Overwrite(d, product) ==
    [err |-> "none", products |-> DictSet(d, product.product_id, product)]

\* add_product that files the product under its class name
add_product_KeyByClass(d, product) ==
    IF product.product_id \in Keys(d)
    THEN [err |-> "DuplicateProductIDError", products |-> d]
    ELSE [err |-> "none", products |-> DictSet(d, product.cls, product)]

\* Inventory.add_product
add_product(d, product) ==
    IF product.product_id \in Keys(d)
    THEN [err |-> "DuplicateProductIDError", products |-> d]
    ELSE [err |-> "none", products |-> DictSet(d, product.product_id, product)]

\* Inventory.remove_product
remove_product(d, product_id) ==
    IF product_id \notin Keys(d)
    THEN [err |-> "ProductNotFoundError", products |-> d]
    ELSE [err |-> "none", products |-> DictDel(d, product_id)]

\* sell_product that takes a product out of the store when it is sold out
sell_product_DropSoldOut(d, product_id, quantity) ==
    LET product == DictGet(d, product_id)
    IN  IF ~Truthy(product)
        THEN [err |-> "ProductNotFoundError", products |-> d]
        ELSE LET r == sell(product, quantity)
             IN  [err |-> r.err,
                  products |-> IF r.err # "none" THEN d
                               ELSE IF r.p.quantity_in_stock = 0
                               THEN DictDel(d, product_id)
                               ELSE DictSet(d, product_id, r.p)]

\* Inventory.sell_product: the product object is mutated in place
sell_product(d, product_id, quantity) ==
    LET product == DictGet(d, product_id)
    IN  IF ~Truthy(product)
        THEN [err |-> "ProductNotFoundError", products |-> d]
        ELSE LET r == sell(product, quantity)
             IN  [err |-> r.err,
                  products |-> IF r.err = "none" THEN DictSet(d, product_id, r.p) ELSE d]

\* Inventory.restock_product
restock_product(d, product_id, quantity) ==
    LET product == DictGet(d, product_id)
    IN  IF ~Truthy(product)
        THEN [err |-> "ProductNotFoundError", products |-> d]
        ELSE [err |-> "none",
              products |-> DictSet(d, product_id, restock(product, quantity))]

ExpiredTest(e, now) == e.val.cls = "Grocery" /\ is_expired(e.val, now)

\* the Grocery entries of the store: each of them reads the clock once, when
\* the comprehension reaches it
Groceries(d) == SelectSeq(d, LAMBDA e : e.val.cls = "Grocery")

\* the readings datetime.now().date() can give during one sweep that starts
\* on the day now: one per Grocery entry, in the store's order, never going
\* back
Clocks(d, now) ==
    { c \in [1..Len(Groceries(d)) -> Days] :
          \A k \in 1..Len(c) :
              /\ ~DateGT(now, c[k])
              /\ k > 1 => ~DateGT(c[k - 1], c[k]) }

RECURSIVE ExpiredFrom(_, _, _, _)
\* the comprehension from entry i on, after k readings of the clock
ExpiredFrom(d, clock, i, k) ==
    IF i > Len(d) THEN <<>>
    ELSE IF d[i].val.cls = "Grocery"
         THEN (IF ExpiredTest(d[i], clock[k + 1]) THEN <<d[i].key>> ELSE <<>>)
                  \o ExpiredFrom(d, clock, i + 1, k + 1)
         ELSE ExpiredFrom(d, clock, i + 1, k)

\* the list expired_ids, in the store's order; clock[k] is what the k-th
\* call of is_expired reads
expired_ids(d, clock) == ExpiredFrom(d, clock, 1, 0)

RECURSIVE DelAll(_, _, _)
\* for pid in ids[i..]: del d[pid]
DelAll(d, ids, i) ==
    IF i > Len(ids) THEN d ELSE DelAll(DictDel(d, ids[i]), ids, i + 1)

\* Inventory.remove_expired_products
remove_expired_products(d, clock) ==
    [err |-> "none", products |-> DelAll(d, expired_ids(d, clock), 1)]

\* ------------------------------------------------------------- queries
UpperCase ==
    <<"A", "B", "C", "D", "E", "F", "G", "H", "I", "J", "K", "L", "M",
      "N", "O", "P", "Q", "R", "S", "T", "U", "V", "W", "X", "Y", "Z">>
LowerCase ==
    <<"a", "b", "c", "d", "e", "f", "g", "h", "i", "j", "k", "l", "m",
      "n", "o", "p", "q", "r", "s", "t", "u", "v", "w", "x", "y", "z">>

LowerChar(c) ==
    IF \E i \in 1..Len(UpperCase) : UpperCase[i] = c
    THEN LowerCase[CHOOSE i \in 1..Len(UpperCase) : UpperCase[i] = c]
    ELSE c

\* str.lower()
lower(str) == [i \in 1..Len(str) |-> LowerChar(str[i])]

\* sub in str
IsIn(sub, str) ==
    \E k \in 0..(Len(str) - Len(sub)) : SubSeq(str, k + 1, k + Len(sub)) = sub

\* p.__class__.__name__
ClassName(p) ==
    CASE p.cls = "Electronics" ->
             <<"E", "l", "e", "c", "t", "r", "o", "n", "i", "c", "s">>
      [] p.cls = "Grocery" -> <<"G", "r", "o", "c", "e", "r", "y">>
      [] p.cls = "Clothing" -> <<"C", "l", "o", "t", "h", "i", "n", "g">>

\* self._products.values(), in the dict's order
Values(d) == [i \in 1..Len(d) |-> d[i].val]

\* search_by_name that matches at the start of the name only
search_by_name_StartsWith(d, name) ==
    SelectSeq(Values(d),
              LAMBDA p : /\ Len(name) <= Len(p.name)
                         /\ SubSeq(lower(p.name), 1, Len(name)) = lower(name))

NameTest(p, name) == IsIn(lower(name), lower(p.name))

\* Inventory.search_by_name
search_by_name(d, name) == SelectSeq(Values(d), LAMBDA p : NameTest(p, name))

\* search_by_type that compares the class name as it is written
search_by_type_CaseSensitive(d, product_type) ==
    SelectSeq(Values(d), LAMBDA p : ClassName(p) = product_type)

TypeTest(p, product_type) == lower(ClassName(p)) = lower(product_type)

\* Inventory.search_by_type
search_by_type(d, product_type) ==
    SelectSeq(Values(d), LAMBDA p : TypeTest(p, product_type))

\* Inventory.list_all_products
list_all_products(d) == Values(d)

\* get_total_value that forgets the stock
get_total_value_Price(p) == p.price

\* Product.get_total_value
get_total_value(p) == p.price * p.quantity_in_stock

RECURSIVE SumValues(_, _, _)
\* sum(...): acc plus the values of vals[i..], added from the left
SumValues(vals, i, acc) ==
    IF i > Len(vals)
    THEN acc
    ELSE SumValues(vals, i + 1, acc + get_total_value(vals[i]))

\* Inventory.total_inventory_value
total_inventory_value(d) == SumValues(Values(d), 1, 0)

\* ----------------------------------------------------------- persistence
NoFile == [kind |-> "missing", data |-> <<>>]
Garbage == [kind |-> "garbage", data |-> <<>>]
Doc(data) == [kind |-> "doc", data |-> data]

\* Inventory.save_to_file: the document written
save_to_file(d) == Doc([i \in 1..Len(d) |-> to_dict(d[i].val)])

\* product_map.get(item.get("type")): the class name, or "" for None
product_map(item) ==
    IF "type" \in DOMAIN item /\ item.type \in {"Electronics", "Grocery", "Clothing"}
    THEN item.type
    ELSE ""

\* cls.from_dict(item)
from_dict(cls, item) ==
    CASE cls = "Electronics" -> Electronics_from_dict(item)
      [] cls = "Grocery" -> Grocery_from_dict(item)
      [] cls = "Clothing" -> Clothing_from_dict(item)

RECURSIVE LoadItems_ViaAdd(_, _, _)
\* a load that inserts through add_product and its duplicate check
LoadItems_ViaAdd(d, data, i) ==
    IF i > Len(data)
    THEN [err |-> "none", products |-> d]
    ELSE LET cls == product_map(data[i])
         IN  IF cls = ""
             THEN [err |-> "InvalidProductDataError", products |-> d]
             ELSE LET r == from_dict(cls, data[i])
                  IN  IF r.err # "none"
                      THEN [err |-> r.err, products |-> d]
                      ELSE IF add_product(d, r.p).err # "none"
                      THEN [err |-> add_product(d, r.p).err, products |-> d]
                      ELSE LoadItems_ViaAdd(add_product(d, r.p).products, data, i + 1)

RECURSIVE LoadItems(_, _, _)
\* the loop over data[i..], the store being d so far
LoadItems(d, data, i) ==
    IF i > Len(data)
    THEN [err |-> "none", products |-> d]
    ELSE LET cls == product_map(data[i])
         IN  IF cls = ""
             THEN [err |-> "InvalidProductDataError", products |-> d]
             ELSE LET r == from_dict(cls, data[i])
                  IN  IF r.err # "none"
                      THEN [err |-> r.err, products |-> d]
                      ELSE LoadItems(DictSet(d, r.p.product_id, r.p), data, i + 1)

\* a load that forgets to clear the store
clear_Skip(d) == d

\* self._products.clear()
clear(d) == <<>>

\* a load that clears the store before it opens the file
load_from_file_ClearFirst(d, f) ==
    IF f.kind = "missing"
    THEN [err |-> "FileNotFoundError", products |-> <<>>]
    ELSE IF f.kind = "garbage"
    THEN [err |-> "JSONDecodeError", products |-> <<>>]
    ELSE LoadItems(<<>>, f.data, 1)

\* Inventory.load_from_file
load_from_file(d, f) ==
    IF f.kind = "missing"
    THEN [err |-> "FileNotFoundError", products |-> d]
    ELSE IF f.kind = "garbage"
    THEN [err |-> "JSONDecodeError", products |-> d]
    ELSE LoadItems(clear(d), f.data, 1)

\* --------------------------------------------------------------- actions
Call(op, err) == [op |-> op, err |-> err]

\* a call that returns None, as every operation that changes the store does
NoReturn == [arg |-> <<>>, list |-> <<>>, value |-> 0]

Init ==
    /\ products = <<>>
    /\ file = NoFile
    /\ today = DayJan31
    /\ result = Call("init", "none")
    /\ returned = NoReturn

AddProduct ==
    \E p \in ProductInputs :
        LET r == add_product(products, p)
        IN  /\ products' = r.products
            /\ result' = Call("add_product", r.err)
            /\ returned' = NoReturn
            /\ UNCHANGED <<file, today>>

RemoveProduct ==
    \E id \in Ids :
        LET r == remove_product(products, id)
        IN  /\ products' = r.products
            /\ result' = Call("remove_product", r.err)
            /\ returned' = NoReturn
            /\ UNCHANGED <<file, today>>

\* like restocking, a sale that adds stock stops at MaxStock
SellProduct(quantities) ==
    \E id \in Ids, q \in quantities :
        LET r == sell_product(products, id, q)
        IN  /\ \A i \in 1..Len(r.products) :
                   r.products[i].val.quantity_in_stock <= MaxStock
            /\ products' = r.products
            /\ result' = Call("sell_product", r.err)
            /\ returned' = NoReturn
            /\ UNCHANGED <<file, today>>

\* restocking stops at MaxStock, which bounds the model
RestockProduct(quantities) ==
    \E id \in Ids, q \in quantities :
        LET r == restock_product(products, id, q)
        IN  /\ \A i \in 1..Len(r.products) :
                   r.products[i].val.quantity_in_stock <= MaxStock
            /\ products' = r.products
            /\ result' = Call("restock_product", r.err)
            /\ returned' = NoReturn
            /\ UNCHANGED <<file, today>>

\* the day the sweep ends on is the day of its last reading
RemoveExpiredProducts ==
    \E clock \in Clocks(products, today) :
        LET r == remove_expired_products(products, clock)
        IN  /\ products' = r.products
            /\ result' = Call("remove_expired_products", r.err)
            /\ returned' = NoReturn
            /\ today' = IF clock = <<>> THEN today ELSE clock[Len(clock)]
            /\ UNCHANGED file

SaveToFile ==
    /\ file' = save_to_file(products)
    /\ result' = Call("save_to_file", "none")
    /\ returned' = NoReturn
    /\ UNCHANGED <<products, today>>

LoadFromFile ==
    LET r == load_from_file(products, file)
    IN  /\ products' = r.products
        /\ result' = Call("load_from_file", r.err)
        /\ returned' = NoReturn
        /\ UNCHANGED <<file, today>>

\* the calendar moves on
Tick ==
    /\ \E d \in Days : DateGT(d, today) /\ today' = d
    /\ result' = Call("tick", "none")
    /\ returned' = NoReturn
    /\ UNCHANGED <<products, file>>

\* what is asked of the searches
NameQueries ==
    { <<"t", "o", "p">>,
      <<"L", "A", "P", "T", "O", "P">>,
      <<"b", "a", "g">>,
      <<"l", "k", " ">>,
      <<>> }

TypeQueries ==
    { <<"e", "l", "e", "c", "t", "r", "o", "n", "i", "c", "s">>,
      <<"G", "R", "O", "C", "E", "R", "Y">>,
      <<"C", "l", "o", "t", "h", "i", "n", "g">>,
      <<"c", "l", "o", "t", "h">>,
      <<"F", "u", "r", "n", "i", "t", "u", "r", "e">> }

Returns(arg, list, value) == [arg |-> arg, list |-> list, value |-> value]

SearchByName ==
    \E name \in NameQueries :
        /\ returned' = Returns(name, search_by_name(products, name), 0)
        /\ result' = Call("search_by_name", "none")
        /\ UNCHANGED <<products, file, today>>

SearchByType ==
    \E product_type \in TypeQueries :
        /\ returned' = Returns(product_type, search_by_type(products, product_type), 0)
        /\ result' = Call("search_by_type", "none")
        /\ UNCHANGED <<products, file, today>>

ListAllProducts ==
    /\ returned' = Returns(<<>>, list_all_products(products), 0)
    /\ result' = Call("list_all_products", "none")
    /\ UNCHANGED <<products, file, today>>

TotalInventoryValue ==
    /\ returned' = Returns(<<>>, <<>>, total_inventory_value(products))
    /\ result' = Call("total_inventory_value", "none")
    /\ UNCHANGED <<products, file, today>>

Next ==
    \/ AddProduct
    \/ RemoveProduct
    \/ SellProduct(Qtys)
    \/ RestockProduct(Qtys)
    \/ RemoveExpiredProducts
    \/ SaveToFile
    \/ LoadFromFile
    \/ Tick

Spec == Init /\ [][Next]_vars

\* ------------------------------------------------ files from elsewhere
RecLaptop ==
    [type |-> "Electronics", product_id |-> "P1", name |-> NameLaptop,
     price |-> 100, quantity |-> 1, brand |-> "Acme", warranty_years |-> 2]
\* the id of RecLaptop again, with another stock
RecLaptopSoldOut ==
    [type |-> "Electronics", product_id |-> "P1", name |-> NameLaptop,
     price |-> 100, quantity |-> 0, brand |-> "Acme", warranty_years |-> 2]
RecBag ==
    [type |-> "Clothing", product_id |-> "P2", name |-> NameBag,
     price |-> 25, quantity |-> 1, size |-> "M", material |-> "Cotton"]
RecMilk ==
    [type |-> "Grocery", product_id |-> "P2", name |-> NameMilk,
     price |-> 3, quantity |-> 1, expiry_date |-> StrFeb02]
\* an unrecognized discriminator
RecFurniture ==
    [type |-> "Furniture", product_id |-> "P2", name |-> NameBag,
     price |-> 25, quantity |-> 1]
\* no discriminator
RecNoType ==
    [product_id |-> "P2", name |-> NameBag, price |-> 25, quantity |-> 1,
     size |-> "M", material |-> "Cotton"]
\* a required field is missing
RecNoBrand ==
    [type |-> "Electronics", product_id |-> "P2", name |-> NameLaptop,
     price |-> 100, quantity |-> 1, warranty_years |-> 2]
\* dates that strptime rejects
RecMilkFeb30 ==
    [type |-> "Grocery", product_id |-> "P2", name |-> NameMilk,
     price |-> 3, quantity |-> 1, expiry_date |-> StrFeb30]
RecMilkMonth13 ==
    [type |-> "Grocery", product_id |-> "P1", name |-> NameMilk,
     price |-> 3, quantity |-> 1, expiry_date |-> StrMonth13]
RecMilkSlashes ==
    [type |-> "Grocery", product_id |-> "P1", name |-> NameMilk,
     price |-> 3, quantity |-> 1, expiry_date |-> StrSlashes]

ExternalFiles ==
    { NoFile, Garbage,
      Doc(<<>>),
      Doc(<<RecBag>>),
      Doc(<<RecLaptop, RecLaptopSoldOut, RecMilk>>),
      Doc(<<RecFurniture>>),
      Doc(<<RecLaptop, RecFurniture>>),
      Doc(<<RecLaptop, RecBag, RecNoType>>),
      Doc(<<RecLaptop, RecNoBrand>>),
      Doc(<<RecMilk, RecMilkMonth13>>),
      Doc(<<RecMilkFeb30, RecFurniture>>),
      Doc(<<RecLaptop, RecMilkSlashes, RecBag>>) }

\* another program replaces, damages or deletes the file
ExternalWrite(files) ==
    /\ file' \in files
    /\ result' = Call("external_write", "none")
    /\ returned' = NoReturn
    /\ UNCHANGED <<products, today>>

\* every operation that changes the store, and the file changing under it
NextExt ==
    \/ AddProduct
    \/ RemoveProduct
    \/ SellProduct(Qtys)
    \/ RestockProduct(Qtys)
    \/ RemoveExpiredProducts
    \/ LoadFromFile
    \/ Tick
    \/ ExternalWrite(ExternalFiles)

\* the store next to files it did not write itself
SpecExt == Init /\ [][NextExt]_vars

\* ------------------------------------------------------ the store queried
\* the files the queried store loads: one that loads, one that fails on its
\* last record, one that cannot be parsed
QueryFiles ==
    { Doc(<<RecLaptop, RecLaptopSoldOut, RecMilk>>),
      Doc(<<RecLaptop, RecBag, RecNoType>>),
      Garbage }

\* the queries next to every operation that changes the store
NextQuery ==
    \/ AddProduct
    \/ RemoveProduct
    \/ SellProduct(Qtys)
    \/ RestockProduct(Qtys)
    \/ RemoveExpiredProducts
    \/ LoadFromFile
    \/ Tick
    \/ ExternalWrite(QueryFiles)
    \/ SearchByName
    \/ SearchByType
    \/ ListAllProducts
    \/ TotalInventoryValue

SpecQuery == Init /\ [][NextQuery]_vars

\* ------------------------------------- sales outside the caller contract
\* quantities a caller may pass to sell_product although the contract asks
\* for positive ones
AnyQtys == (0 - MaxStock)..MaxStock

\* no restocking here: stock grows only by a sale of a negative quantity
NextAnyQty ==
    \/ AddProduct
    \/ RemoveProduct
    \/ SellProduct(AnyQtys)

SpecAnyQty == Init /\ [][NextAnyQty]_vars

\* ================================================================ claims
Stock(d, id) == DictGet(d, id).quantity_in_stock

\* errors that come from reconstructing one record of the file
RecordErrors == {"InvalidProductDataError", "KeyError", "ValueError"}

\* C1: every product in the store has stock >= 0, whatever add_product (stock
\* >= 0), sell_product and restock_product (positive quantities),
\* remove_product, remove_expired_products, save_to_file and load_from_file of
\* a file the store saved have done.
C1_StockNonNegative ==
    \A i \in 1..Len(products) : products[i].val.quantity_in_stock >= 0

\* a sell was rejected while a product had nothing left to sell
C1_Witness ==
    /\ result = Call("sell_product", "InsufficientStockError")
    /\ \E i \in 1..Len(products) : products[i].val.quantity_in_stock = 0

\* C2: for every stored product and every quantity, sell and sell_product on
\* its id fail with InsufficientStock and change nothing when quantity > stock,
\* and otherwise (quantity = stock included) succeed and leave stock - quantity.
C2_SellRejectsOrSubtracts ==
    \A i \in 1..Len(products), q \in Qtys :
        LET id == products[i].key
            p == products[i].val
            r == sell(p, q)
            s == sell_product(products, id, q)
        IN  IF q > p.quantity_in_stock
            THEN /\ r.err = "InsufficientStockError"
                 /\ r.p = p
                 /\ s.err = "InsufficientStockError"
                 /\ s.products = products
            ELSE /\ r.err = "none"
                 /\ r.p.quantity_in_stock = p.quantity_in_stock - q
                 /\ s.err = "none"
                 /\ Stock(s.products, id) = p.quantity_in_stock - q

\* a sell was rejected although the product had some stock: a partial sale
\* was possible and did not happen
C2_Witness ==
    /\ result = Call("sell_product", "InsufficientStockError")
    /\ \E i \in 1..Len(products) : products[i].val.quantity_in_stock >= 1

\* is record r one that the load cannot rebuild a product from?
BadRecord(r) ==
    \/ "type" \notin DOMAIN r
    \/ r.type \notin {"Electronics", "Grocery", "Clothing"}
    \/ r.type = "Electronics"
         /\ ~(BaseFields \cup {"brand", "warranty_years"} \subseteq DOMAIN r)
    \/ r.type = "Clothing"
         /\ ~(BaseFields \cup {"size", "material"} \subseteq DOMAIN r)
    \/ r.type = "Grocery"
         /\ ~(BaseFields \cup {"expiry_date"} \subseteq DOMAIN r)
    \/ r.type = "Grocery"
         /\ BaseFields \cup {"expiry_date"} \subseteq DOMAIN r
         /\ ~strptime(r.expiry_date).ok

\* the position of the first bad record of data, Len(data) + 1 if there is none
FirstBad(data) ==
    IF \E i \in 1..Len(data) : BadRecord(data[i])
    THEN CHOOSE i \in 1..Len(data) :
             BadRecord(data[i]) /\ \A j \in 1..(i - 1) : ~BadRecord(data[j])
    ELSE Len(data) + 1

\* the last of the records data[1..n] that carries product id
LastWithId(data, n, id) ==
    CHOOSE j \in 1..n :
        /\ data[j].product_id = id
        /\ \A k \in (j + 1)..n : data[k].product_id # id

\* does store d hold exactly the products of the records data[1..n], one per
\* id, each built from the last record with that id?
HoldsRecords(d, data, n) ==
    /\ Keys(d) = {data[j].product_id : j \in 1..n}
    /\ \A i \in 1..Len(d) :
           d[i].val = from_dict(data[LastWithId(data, n, d[i].key)].type,
                                data[LastWithId(data, n, d[i].key)]).p

\* C3: after a load that failed on one of the file's records, at any position
\* in the file, the store is empty: it holds neither its products from before
\* the load nor a product of a record that preceded the bad one.
C3_EmptyAfterFailedLoad ==
    (result.op = "load_from_file" /\ result.err \in RecordErrors)
        => products = <<>>

\* C4: a load of a file with a bad record (unknown or missing discriminator,
\* missing field, invalid expiry date) fails with InvalidProductData and with
\* no other error.
C4_BadRecordIsInvalidProductData ==
    ( /\ result.op = "load_from_file"
      /\ file.kind = "doc"
      /\ FirstBad(file.data) <= Len(file.data) )
        => result.err = "InvalidProductDataError"

\* C5: saving any reachable store and loading the file into a fresh Inventory
\* succeeds and gives the same ids and, under each id, the same variant and
\* the same fields.
C5_RoundTrip ==
    LET r == load_from_file(<<>>, save_to_file(products))
    IN  /\ r.err = "none"
        /\ Keys(r.products) = Keys(products)
        /\ \A id \in Keys(products) : DictGet(r.products, id) = DictGet(products, id)

\* a store with a Grocery and another variant was loaded from the file it had
\* been saved to
C5_Witness ==
    /\ result = Call("load_from_file", "none")
    /\ file = save_to_file(products)
    /\ \E i, j \in 1..Len(products) :
           /\ products[i].val.cls = "Grocery"
           /\ products[j].val.cls # "Grocery"

\* C6: add_product of a product whose id is in the store fails with
\* DuplicateProductID and changes nothing; otherwise it puts the product in
\* the store under its id and keeps the rest.
C6_AddRejectsDuplicate ==
    \A p \in ProductInputs :
        LET r == add_product(products, p)
        IN  IF p.product_id \in Keys(products)
            THEN /\ r.err = "DuplicateProductIDError"
                 /\ r.products = products
            ELSE /\ r.err = "none"
                 /\ Keys(r.products) = Keys(products) \cup {p.product_id}
                 /\ DictGet(r.products, p.product_id) = p
                 /\ \A id \in Keys(products) :
                        DictGet(r.products, id) = DictGet(products, id)

\* an add was rejected as a duplicate while the id held a product of another
\* variant than some product offered under that id
C6_Witness ==
    /\ result = Call("add_product", "DuplicateProductIDError")
    /\ \E i \in 1..Len(products), p \in ProductInputs :
           /\ p.product_id = products[i].key
           /\ p.cls # products[i].val.cls

\* C7: remove_product, sell_product and restock_product fail with
\* ProductNotFound and change nothing for an id that is not in the store, and
\* do not fail with ProductNotFound for an id that is, at stock 0 too.
C7_NotFoundIffAbsent ==
    \A id \in Ids, q \in Qtys :
        LET rm == remove_product(products, id)
            sl == sell_product(products, id, q)
            rs == restock_product(products, id, q)
        IN  IF id \notin Keys(products)
            THEN /\ rm.err = "ProductNotFoundError" /\ rm.products = products
                 /\ sl.err = "ProductNotFoundError" /\ sl.products = products
                 /\ rs.err = "ProductNotFoundError" /\ rs.products = products
            ELSE /\ rm.err # "ProductNotFoundError"
                 /\ sl.err # "ProductNotFoundError"
                 /\ rs.err # "ProductNotFoundError"

\* a call failed with ProductNotFound while the store held a product with
\* stock 0 under the other id
C7_Witness ==
    /\ result.op \in {"remove_product", "sell_product", "restock_product"}
    /\ result.err = "ProductNotFoundError"
    /\ \E i \in 1..Len(products) : products[i].val.quantity_in_stock = 0

\* days since an arbitrary origin, increasing with the calendar
Ordinal(d) == (d.year * 12 + d.month) * 31 + d.day

ExpiredOn(p, now) ==
    p.cls = "Grocery" /\ Ordinal(p.expiry_date) < Ordinal(now)

\* C8: remove_expired_products removes exactly the Grocery products whose
\* expiry date is before the current date of the call: for some day d of the
\* call (from the day it starts on to the day it ends on) the store after the
\* sweep is the store before it without the Grocery products expired on d,
\* every other entry unchanged and in order.
C8_SweepRemovesExactlyExpired ==
    [][ result'.op = "remove_expired_products"
            => \E d \in Days :
                   /\ ~DateGT(today, d)
                   /\ ~DateGT(d, today')
                   /\ products' = SelectSeq(products,
                                            LAMBDA e : ~ExpiredOn(e.val, d)) ]_vars

\* C9: every key of the store is the id of the product under it, and no two
\* entries have the same key.
C9_KeysAreIds ==
    /\ \A i \in 1..Len(products) : products[i].key = products[i].val.product_id
    /\ \A i, j \in 1..Len(products) : products[i].key = products[j].key => i = j

\* a load failed on a record and left a product in the store
C9_Witness ==
    /\ result.op = "load_from_file"
    /\ result.err \in {"KeyError", "ValueError"}
    /\ Len(products) = 1

\* C10: for every stored product and every quantity that sell accepts, sell
\* then restock of that quantity gives the stock back, and sell_product then
\* restock_product on the id gives the store back.
C10_SellThenRestock ==
    \A i \in 1..Len(products), q \in Qtys :
        LET id == products[i].key
            p == products[i].val
            r == sell(p, q)
            s == sell_product(products, id, q)
        IN  r.err = "none"
                => /\ restock(r.p, q).quantity_in_stock = p.quantity_in_stock
                   /\ s.err = "none"
                   /\ restock_product(s.products, id, q).err = "none"
                   /\ restock_product(s.products, id, q).products = products

\* a restock succeeded and a product holds more than the largest quantity
\* but one, so a sale of less than its stock can be undone
C10_Witness ==
    /\ result = Call("restock_product", "none")
    /\ \E i \in 1..Len(products) : products[i].val.quantity_in_stock >= 2

RECURSIVE SumOverIds(_, _)
\* the sum of price * stock over the products of d stored under the ids S
SumOverIds(d, S) ==
    IF S = {}
    THEN 0
    ELSE LET id == CHOOSE x \in S : TRUE
         IN  DictGet(d, id).price * Stock(d, id) + SumOverIds(d, S \ {id})

\* C11: total_inventory_value is the sum of price * current stock over the
\* products now in the store, 0 for an empty store; a successful sale of q
\* lowers it by price * q and a rejected sale leaves it as it was.
C11_TotalIsSumOfPriceTimesStock ==
    /\ total_inventory_value(products) = SumOverIds(products, Keys(products))
    /\ products = <<>> => total_inventory_value(products) = 0
    /\ result.op = "total_inventory_value"
           => returned.value = SumOverIds(products, Keys(products))
    /\ \A i \in 1..Len(products), q \in Qtys :
           LET p == products[i].val
               s == sell_product(products, products[i].key, q)
           IN  total_inventory_value(s.products) =
                   total_inventory_value(products)
                     - (IF q <= p.quantity_in_stock THEN p.price * q ELSE 0)

\* the value of a store of two products, one of them with stock sold or
\* restocked away from what it was added with, was asked for
C11_Witness ==
    /\ result.op = "total_inventory_value"
    /\ Len(products) = 2
    /\ returned.value > 0
    /\ \E i \in 1..Len(products) : products[i].val.quantity_in_stock = MaxStock

\* are c1 and c2 the same character, ignoring letter case?
SameLetter(c1, c2) ==
    \/ c1 = c2
    \/ \E k \in 1..Len(UpperCase) :
           \/ c1 = UpperCase[k] /\ c2 = LowerCase[k]
           \/ c1 = LowerCase[k] /\ c2 = UpperCase[k]

EqualIgnoringCase(a, b) ==
    /\ Len(a) = Len(b)
    /\ \A i \in 1..Len(a) : SameLetter(a[i], b[i])

ContainsIgnoringCase(str, sub) ==
    \E k \in 0..(Len(str) - Len(sub)) :
        EqualIgnoringCase(SubSeq(str, k + 1, k + Len(sub)), sub)

\* the characters of the tag that to_dict writes as "type"
Spell(tag) ==
    CASE tag = "Electronics" ->
             <<"E", "l", "e", "c", "t", "r", "o", "n", "i", "c", "s">>
      [] tag = "Grocery" -> <<"G", "r", "o", "c", "e", "r", "y">>
      [] tag = "Clothing" -> <<"C", "l", "o", "t", "h", "i", "n", "g">>

HasType(p, typeName) == EqualIgnoringCase(Spell(to_dict(p).type), typeName)

\* the products of d, in order, whose type tag is typeName ignoring case
OfType(d, typeName) == SelectSeq(Values(d), LAMBDA p : HasType(p, typeName))

\* C12: search_by_type returns, in the store's order, exactly the products
\* whose type tag equals the given name ignoring case, nothing for a name that
\* matches no variant, and a search step does not change the store.
C12_SearchByType ==
    /\ [](\A t \in TypeQueries : search_by_type(products, t) = OfType(products, t))
    /\ [][ result'.op = "search_by_type"
               => /\ result'.err = "none"
                  /\ products' = products
                  /\ returned'.list = OfType(products, returned'.arg) ]_vars

\* a search for GROCERY found the two groceries of the store
C12_Witness ==
    /\ result.op = "search_by_type"
    /\ returned.arg = <<"G", "R", "O", "C", "E", "R", "Y">>
    /\ Len(returned.list) = 2
    /\ returned.list = Values(products)

HasName(p, sub) == ContainsIgnoringCase(p.name, sub)

\* the products of d, in order, whose name contains sub ignoring case
Named(d, sub) == SelectSeq(Values(d), LAMBDA p : HasName(p, sub))

\* C13: search_by_name returns, in the store's order, exactly the products
\* whose name contains the given text ignoring case, nothing when no name
\* does, and a search step does not change the store.
C13_SearchByName ==
    /\ [](\A n \in NameQueries : search_by_name(products, n) = Named(products, n))
    /\ [][ result'.op = "search_by_name"
               => /\ result'.err = "none"
                  /\ products' = products
                  /\ returned'.list = Named(products, returned'.arg) ]_vars

\* a search for "top" found the Laptop and the Laptop Bag
C13_Witness ==
    /\ result.op = "search_by_name"
    /\ returned.arg = <<"t", "o", "p">>
    /\ Len(returned.list) = 2
    /\ {returned.list[1].name, returned.list[2].name} = {NameLaptop, NameBag}

\* the document a load finds, if the file is one
Documents == IF file.kind = "doc" THEN {file} ELSE {}

Sound(f) == FirstBad(f.data) > Len(f.data)

FileIds(f) == {f.data[j].product_id : j \in 1..Len(f.data)}

\* C14: a successful load replaces the store: afterwards it holds exactly the
\* products of the file's records, and no product of before whose id is not
\* in the file.
C14_LoadReplaces ==
    /\ result = Call("load_from_file", "none")
           => /\ file.kind = "doc"
              /\ Sound(file)
              /\ HoldsRecords(products, file.data, Len(file.data))
    /\ \A f \in Documents :
           LET r == load_from_file(products, f)
           IN  r.err = "none"
                   => /\ HoldsRecords(r.products, f.data, Len(f.data))
                      /\ \A id \in Keys(products) \ FileIds(f) :
                             id \notin Keys(r.products)

\* a file of one record was loaded and the store holds one product
C14_Witness ==
    /\ result = Call("load_from_file", "none")
    /\ Len(file.data) = 1
    /\ Len(products) = 1

\* C15: for every stored product (stock >= 0) and every quantity, zero and
\* negative ones included, sell either fails with InsufficientStock and leaves
\* the stock, or leaves stock - quantity >= 0.
C15_SellNeverNegative ==
    \A i \in 1..Len(products), q \in AnyQtys :
        LET p == products[i].val
            r == sell(p, q)
        IN  /\ p.quantity_in_stock >= 0
            /\ \/ r.err = "InsufficientStockError" /\ r.p = p
               \/ /\ r.err = "none"
                  /\ r.p.quantity_in_stock = p.quantity_in_stock - q
                  /\ r.p.quantity_in_stock >= 0

\* a sale succeeded and a product holds more than any product is added with:
\* a negative quantity was sold
C15_Witness ==
    /\ result = Call("sell_product", "none")
    /\ \E i \in 1..Len(products) :
           /\ products[i].val.quantity_in_stock = MaxStock
           /\ \A q \in InitStocks : q < MaxStock

\* errors of opening and parsing the file
OpenErrors == {"FileNotFoundError", "JSONDecodeError"}

\* C16: a load of a file that is missing or is not a parseable document fails
\* and leaves the store as it was; a load that failed on a record had a
\* parseable document.
C16_OpenFailureKeepsStore ==
    /\ \A f \in {NoFile, Garbage} :
           /\ load_from_file(products, f).err \in OpenErrors
           /\ load_from_file(products, f).products = products
    /\ (result.op = "load_from_file" /\ result.err \in OpenErrors)
           => file.kind \in {"missing", "garbage"}
    /\ (result.op = "load_from_file" /\ result.err \in RecordErrors)
           => file.kind = "doc"

\* a load of a file that is not a document failed and the store still holds
\* two products
C16_Witness ==
    /\ result = Call("load_from_file", "JSONDecodeError")
    /\ Len(products) = 2

HasDuplicateIds(f) ==
    \E j, k \in 1..Len(f.data) :
        j # k /\ f.data[j].product_id = f.data[k].product_id

\* C17: a document of well-formed records of which some share a product id
\* loads without error, and the store then holds one product under each id,
\* built from the last record with that id.
C17_LoadKeepsLastDuplicate ==
    \A f \in Documents :
        (Sound(f) /\ HasDuplicateIds(f))
            => LET r == load_from_file(products, f)
               IN  /\ r.err = "none"
                   /\ \A id \in FileIds(f) :
                          /\ Cardinality({i \in 1..Len(r.products) :
                                             r.products[i].key = id}) = 1
                          /\ DictGet(r.products, id) =
                                 from_dict(f.data[LastWithId(f.data, Len(f.data), id)].type,
                                           f.data[LastWithId(f.data, Len(f.data), id)]).p

\* a file with two records for one id was loaded; the store has fewer
\* products than the file has records
C17_Witness ==
    /\ result = Call("load_from_file", "none")
    /\ file.kind = "doc"
    /\ HasDuplicateIds(file)
    /\ Len(products) < Len(file.data)

\* do stores d and e differ at most in the stock of the product under id?
SameButStock(d, e, id) ==
    /\ Len(e) = Len(d)
    /\ \A i \in 1..Len(d) :
           /\ e[i].key = d[i].key
           /\ IF d[i].key = id
              THEN [e[i].val EXCEPT !.quantity_in_stock = d[i].val.quantity_in_stock]
                       = d[i].val
              ELSE e[i].val = d[i].val

\* C18: sell_product and restock_product, failing or not, change nothing but
\* the stock of the product under the given id.
C18_OnlyStockChanges ==
    \A id \in Ids, q \in Qtys :
        /\ SameButStock(products, sell_product(products, id, q).products, id)
        /\ SameButStock(products, restock_product(products, id, q).products, id)

\* a sale succeeded in a store of two products, one of them sold out
C18_Witness ==
    /\ result = Call("sell_product", "none")
    /\ Len(products) = 2
    /\ \E i \in 1..Len(products) : products[i].val.quantity_in_stock = 0
====
